---- MODULE Spec2Model ----
(***************************************************************************)
(* Model of websockets/server.py: the serve() entry point and the          *)
(* per-connection task WebSocketServerProtocol.handler(), which runs the   *)
(* opening handshake, the user handler and the closing sequence over one   *)
(* transport.  One step of the model is one statement (or one resumption   *)
(* of a suspended coroutine) of the source.                                *)
(***************************************************************************)
EXTENDS Integers, Sequences, FiniteSets, TLC

\* Number of transports the listening server may accept.
MaxConns == 2

\* Number of cancellations a user handler absorbs while it goes on waiting.
MaxCancels == 1

Conns == 1..MaxConns

\* ------------------------------------------------------------------ values

\* Python's None, as the ws_handler argument.
None == "None"

\* The values serve() may be given as ws_handler: no handler, or a coroutine.
HandlerArgs == {None, "app"}

\* The values serve() may be given as protocols and as extensions.
FeatureArgs == {<<>>, <<"chat">>}

\* What a user handler does with the CancelledError thrown in at its yield:
\* lets it propagate, raises an exception of its own, returns, or catches it
\* and goes on waiting.
HandlerOnCancel == {"propagates", "raises", "returns", "waits"}

\* from .http import USER_AGENT
USER_AGENT == "Python/3.3 websockets"

\* Header mappings read_request can produce (a dict: absent names are absent).
HeadersFull(upgrade, k) ==
    ("Host" :> "example.com") @@ ("Upgrade" :> upgrade) @@ ("Sec-WebSocket-Key" :> k)

HeadersNoKey == ("Host" :> "example.com") @@ ("Upgrade" :> "websocket")

HeadersNoUpgrade ==
    ("Host" :> "example.com") @@ ("Sec-WebSocket-Key" :> "dGhlIHNhbXBsZSBub25jZQ==")

\* Outcomes of `yield from read_request(self.stream)`: a parse failure, or the
\* pair (uri, headers).
ParseFailure == [ok |-> FALSE, uri |-> "", headers |-> ("Host" :> "")]

Parsed(u, h) == [ok |-> TRUE, uri |-> u, headers |-> h]

Requests ==
    { ParseFailure,
      Parsed("/chat", HeadersFull("websocket", "dGhlIHNhbXBsZSBub25jZQ==")),
      Parsed("/feed", HeadersFull("WebSocket", "x3JJHMbDL1EzLkh9GBhXDw==")),
      Parsed("/chat", HeadersFull("h2c", "dGhlIHNhbXBsZSBub25jZQ==")),
      Parsed("/chat", HeadersNoKey),
      Parsed("/feed", HeadersNoUpgrade) }

\* ------------------------------------------------------- pure collaborators

\* get_header = lambda k: headers.get(k, '')
get_header(headers, k) == IF k \in DOMAIN headers THEN headers[k] ELSE ""

\* str.lower() on the header values of the model.
Lower(s) == IF s = "WebSocket" THEN "websocket" ELSE s

\* handshake.check_request: the key, or a failure (InvalidHandshake) when the
\* Upgrade header does not name websocket or the key is absent or empty.
check_request(headers) ==
    IF Lower(get_header(headers, "Upgrade")) # "websocket"
    THEN [ok |-> FALSE, key |-> ""]
    ELSE IF get_header(headers, "Sec-WebSocket-Key") = ""
    THEN [ok |-> FALSE, key |-> ""]
    ELSE [ok |-> TRUE, key |-> get_header(headers, "Sec-WebSocket-Key")]

\* handshake.accept: base64(sha1(key + GUID)), tabulated for the keys of the
\* model.
accept(k) ==
    CASE k = "dGhlIHNhbXBsZSBub25jZQ==" -> "s3pPLMBiTxaQ9kYGzzhZRbK+xOo="
      [] k = "x3JJHMbDL1EzLkh9GBhXDw==" -> "HSmrc0sMlYUkAGmm5OPpG2HaGWk="
      [] OTHER -> "?"

\* set_header = lambda k, v: response.append('{}: {}'.format(k, v))
set_header(response, k, v) == Append(response, <<k, ": ", v>>)

\* handshake.build_response: the headers of the 101 response, in fixed order.
build_response(response, k) ==
    set_header(set_header(set_header(response,
        "Upgrade", "websocket"),
        "Connection", "Upgrade"),
        "Sec-WebSocket-Accept", accept(k))

\* sep.join(parts) on sequences of character groups.
RECURSIVE Join(_, _)
Join(parts, sep) ==
    IF Len(parts) = 0 THEN <<>>
    ELSE IF Len(parts) = 1 THEN parts[1]
    ELSE parts[1] \o sep \o Join(Tail(parts), sep)

\* The response without the final response.append('\r\n').
Response_unterminated(k) ==
    LET r1 == << <<"HTTP/1.1 101 Switching Protocols">> >>
        r2 == set_header(r1, "Server", USER_AGENT)
        r3 == build_response(r2, k)
    IN  Join(r3, <<"\r\n">>)

\* The bytes handshake() writes for key k (lines 71-76).
Response(k) ==
    LET r1 == << <<"HTTP/1.1 101 Switching Protocols">> >>
        r2 == set_header(r1, "Server", USER_AGENT)
        r3 == build_response(r2, k)
        r4 == Append(r3, <<"\r\n">>)
    IN  Join(r4, <<"\r\n">>)

\* -------------------------------------------------------------------- state

VARIABLES
    debug,                \* Python's __debug__: assert statements are executed
    serve_status,         \* serve(): "not_called", "AssertionError",
                          \* "create_server" (suspended), "listening", "OSError"
    serve_args,           \* the arguments of the serve() call
    create_server_calls,  \* calls of the event loop's create_server
    pc,                   \* per connection: where its task stands
    ws_handler,           \* self.ws_handler
    state,                \* self.state
    opening_handshake,    \* self.opening_handshake: number of set_result calls
    written,              \* transport.write: the payloads, in order
    close_calls,          \* transport.close: number of calls
    request,              \* what read_request returned (uri, headers)
    key,                  \* local `key` of handshake()
    uri,                  \* local `uri` of handler()
    exc,                  \* the exception in flight (type, cause)
    handler_calls,        \* the calls of ws_handler: (uri, state at the call)
    warnings,             \* logger.warning records of this connection
    outcome,              \* how the task ended: "", "returned", "raised"
    trace                 \* per connection: the events so far, in order

vars == << debug, serve_status, serve_args, create_server_calls, pc, ws_handler, state,
           opening_handshake, written, close_calls, request, key, uri, exc,
           handler_calls, warnings, outcome, trace >>

srvVars == << debug, serve_status, serve_args, create_server_calls >>

NoExc == [type |-> "", cause |-> ""]

NoArgs == [ws_handler |-> None, protocols |-> <<>>, extensions |-> <<>>]

Init ==
    /\ debug \in BOOLEAN
    /\ serve_status = "not_called"
    /\ serve_args = NoArgs
    /\ create_server_calls = 0
    /\ pc = [c \in Conns |-> "absent"]
    /\ ws_handler = [c \in Conns |-> None]
    /\ state = [c \in Conns |-> "CONNECTING"]
    /\ opening_handshake = [c \in Conns |-> 0]
    /\ written = [c \in Conns |-> <<>>]
    /\ close_calls = [c \in Conns |-> 0]
    /\ request = [c \in Conns |-> ParseFailure]
    /\ key = [c \in Conns |-> ""]
    /\ uri = [c \in Conns |-> ""]
    /\ exc = [c \in Conns |-> NoExc]
    /\ handler_calls = [c \in Conns |-> <<>>]
    /\ warnings = [c \in Conns |-> 0]
    /\ outcome = [c \in Conns |-> ""]
    /\ trace = [c \in Conns |-> <<>>]

\* ------------------------------------------------------------------ serve()

\* serve() with the guard on extensions left out.
Serve_protocols_only(h, p, e) ==
    /\ serve_status = "not_called"
    /\ serve_args' = [ws_handler |-> h, protocols |-> p, extensions |-> e]
    /\ IF debug /\ p # <<>>
       THEN /\ serve_status' = "AssertionError"
            /\ UNCHANGED create_server_calls
       ELSE /\ serve_status' = "create_server"
            /\ create_server_calls' = create_server_calls + 1
    /\ UNCHANGED << debug, pc, ws_handler, state, opening_handshake, written,
                    close_calls, request, key, uri, exc, handler_calls,
                    warnings, outcome, trace >>

\* serve(ws_handler, protocols=p, extensions=e), lines 106-109, up to the
\* point where the coroutine is suspended in create_server.  The guards are
\* the statements `assert not protocols` and `assert not extensions`, which
\* Python defines as `if __debug__: if not x: raise AssertionError`: they
\* raise when __debug__ is true, and with __debug__ false (python -O) they
\* are not executed and create_server is called whatever the arguments are.
Serve(h, p, e) ==
    /\ serve_status = "not_called"
    /\ serve_args' = [ws_handler |-> h, protocols |-> p, extensions |-> e]
    /\ IF debug /\ (p # <<>> \/ e # <<>>)
       THEN /\ serve_status' = "AssertionError"
            /\ UNCHANGED create_server_calls
       ELSE /\ serve_status' = "create_server"
            /\ create_server_calls' = create_server_calls + 1
    /\ UNCHANGED << debug, pc, ws_handler, state, opening_handshake, written,
                    close_calls, request, key, uri, exc, handler_calls,
                    warnings, outcome, trace >>

\* serve(), lines 109-110: create_server completes and serve() returns the
\* server, which listens.
create_server_returns ==
    /\ serve_status = "create_server"
    /\ serve_status' = "listening"
    /\ UNCHANGED << debug, serve_args, create_server_calls, pc, ws_handler, state,
                    opening_handshake, written, close_calls, request, key,
                    uri, exc, handler_calls, warnings, outcome, trace >>

\* serve(), lines 109-110: create_server raises (the address is in use) and
\* the exception leaves serve(); nothing listens.
create_server_raises ==
    /\ serve_status = "create_server"
    /\ serve_status' = "OSError"
    /\ UNCHANGED << debug, serve_args, create_server_calls, pc, ws_handler, state,
                    opening_handshake, written, close_calls, request, key,
                    uri, exc, handler_calls, warnings, outcome, trace >>

\* The event loop accepts a transport and calls the factory: __init__,
\* lines 31-35.  The instance starts with the class attribute state.
Construct(c) ==
    /\ serve_status = "listening"
    /\ pc[c] = "absent"
    /\ \A d \in Conns : d < c => pc[d] # "absent"
    /\ ws_handler' = [ws_handler EXCEPT ![c] = serve_args.ws_handler]
    /\ state' = [state EXCEPT ![c] = "CONNECTING"]
    /\ pc' = [pc EXCEPT ![c] = "constructed"]
    /\ UNCHANGED << srvVars, opening_handshake, written, close_calls, request,
                    key, uri, exc, handler_calls, warnings, outcome, trace >>

\* connection_made(transport), lines 37-39: tulip.async(self.handler()).
connection_made(c) ==
    /\ pc[c] = "constructed"
    /\ pc' = [pc EXCEPT ![c] = "task"]
    /\ trace' = [trace EXCEPT ![c] = Append(@, "task_spawned")]
    /\ UNCHANGED << srvVars, ws_handler, state, opening_handshake, written,
                    close_calls, request, key, uri, exc, handler_calls,
                    warnings, outcome >>

\* ---------------------------------------------------------------- handler()

\* handler(), lines 43-46: the first run of the task, up to the read of the
\* request in handshake().
handler_start(c) ==
    /\ pc[c] = "task"
    /\ IF ws_handler[c] = None
       THEN /\ exc' = [exc EXCEPT ![c] =
                          [type |-> "NotImplementedError", cause |-> ""]]
            /\ pc' = [pc EXCEPT ![c] = "except"]
            /\ trace' = [trace EXCEPT ![c] = Append(@, "no_handler")]
       ELSE /\ pc' = [pc EXCEPT ![c] = "read_request"]
            /\ trace' = [trace EXCEPT ![c] = Append(@, "handshake_start")]
            /\ UNCHANGED exc
    /\ UNCHANGED << srvVars, ws_handler, state, opening_handshake, written,
                    close_calls, request, key, uri, handler_calls, warnings,
                    outcome >>

\* handshake() without the try block around read_request: the parse failure
\* propagates as it is.
read_request_unwrapped(c, r) ==
    /\ pc[c] = "read_request"
    /\ IF r.ok
       THEN /\ request' = [request EXCEPT ![c] = r]
            /\ pc' = [pc EXCEPT ![c] = "check_request"]
            /\ UNCHANGED << exc, trace >>
       ELSE /\ exc' = [exc EXCEPT ![c] = [type |-> "ParseError", cause |-> ""]]
            /\ pc' = [pc EXCEPT ![c] = "except"]
            /\ trace' = [trace EXCEPT ![c] =
                            @ \o <<"parse_failed", "handshake_failed">>]
            /\ UNCHANGED request
    /\ UNCHANGED << srvVars, ws_handler, state, opening_handshake, written,
                    close_calls, key, uri, handler_calls, warnings, outcome >>

\* handshake(), lines 62-65: read_request returns r or fails.
read_request(c, r) ==
    /\ pc[c] = "read_request"
    /\ IF r.ok
       THEN /\ request' = [request EXCEPT ![c] = r]
            /\ pc' = [pc EXCEPT ![c] = "check_request"]
            /\ UNCHANGED << exc, trace >>
       ELSE /\ exc' = [exc EXCEPT ![c] =
                          [type |-> "InvalidHandshake", cause |-> "ParseError"]]
            /\ pc' = [pc EXCEPT ![c] = "except"]
            /\ trace' = [trace EXCEPT ![c] =
                            @ \o <<"parse_failed", "handshake_failed">>]
            /\ UNCHANGED request
    /\ UNCHANGED << srvVars, ws_handler, state, opening_handshake, written,
                    close_calls, key, uri, handler_calls, warnings, outcome >>

\* handshake() taking the key from the header without validating the request.
handshake_check_lenient(c) ==
    /\ pc[c] = "check_request"
    /\ key' = [key EXCEPT ![c] =
                  get_header(request[c].headers, "Sec-WebSocket-Key")]
    /\ pc' = [pc EXCEPT ![c] = "write"]
    /\ trace' = [trace EXCEPT ![c] = Append(@, "request_valid")]
    /\ UNCHANGED << srvVars, ws_handler, state, opening_handshake, written,
                    close_calls, request, uri, exc, handler_calls, warnings,
                    outcome >>

\* handshake(), lines 66-67: key = check_request(get_header).
handshake_check(c) ==
    /\ pc[c] = "check_request"
    /\ LET res == check_request(request[c].headers) IN
       IF res.ok
       THEN /\ key' = [key EXCEPT ![c] = res.key]
            /\ pc' = [pc EXCEPT ![c] = "write"]
            /\ trace' = [trace EXCEPT ![c] = Append(@, "request_valid")]
            /\ UNCHANGED exc
       ELSE /\ exc' = [exc EXCEPT ![c] =
                          [type |-> "InvalidHandshake", cause |-> ""]]
            /\ pc' = [pc EXCEPT ![c] = "except"]
            /\ trace' = [trace EXCEPT ![c] = Append(@, "handshake_failed")]
            /\ UNCHANGED key
    /\ UNCHANGED << srvVars, ws_handler, state, opening_handshake, written,
                    close_calls, request, uri, handler_calls, warnings,
                    outcome >>

\* handshake() writing the response twice.
handshake_write_twice(c) ==
    /\ pc[c] = "write"
    /\ written' = [written EXCEPT ![c] = @ \o <<Response(key[c]), Response(key[c])>>]
    /\ pc' = [pc EXCEPT ![c] = "set_state"]
    /\ trace' = [trace EXCEPT ![c] = @ \o <<"response_written", "response_written">>]
    /\ UNCHANGED << srvVars, ws_handler, state, opening_handshake, close_calls,
                    request, key, uri, exc, handler_calls, warnings, outcome >>

\* handshake() building the response without writing it.
handshake_write_missing(c) ==
    /\ pc[c] = "write"
    /\ pc' = [pc EXCEPT ![c] = "set_state"]
    /\ UNCHANGED << srvVars, ws_handler, state, opening_handshake, written,
                    close_calls, request, key, uri, exc, handler_calls,
                    warnings, outcome, trace >>

\* handshake(), lines 71-77: build the response and write it.
handshake_write(c) ==
    /\ pc[c] = "write"
    /\ written' = [written EXCEPT ![c] = Append(@, Response(key[c]))]
    /\ pc' = [pc EXCEPT ![c] = "set_state"]
    /\ trace' = [trace EXCEPT ![c] = Append(@, "response_written")]
    /\ UNCHANGED << srvVars, ws_handler, state, opening_handshake, close_calls,
                    request, key, uri, exc, handler_calls, warnings, outcome >>

\* handshake() without the assignment of the state.
handshake_open_skipped(c) ==
    /\ pc[c] = "set_state"
    /\ pc' = [pc EXCEPT ![c] = "set_result"]
    /\ UNCHANGED << srvVars, ws_handler, state, opening_handshake, written,
                    close_calls, request, key, uri, exc, handler_calls,
                    warnings, outcome, trace >>

\* handshake() assigning the class attribute, WebSocketServerProtocol.state,
\* which every instance that has not set its own state reads.
handshake_open_class_attribute(c) ==
    /\ pc[c] = "set_state"
    /\ state' = [d \in Conns |->
                    IF d = c \/ state[d] = "CONNECTING" THEN "OPEN" ELSE state[d]]
    /\ pc' = [pc EXCEPT ![c] = "set_result"]
    /\ trace' = [trace EXCEPT ![c] = Append(@, "state_open")]
    /\ UNCHANGED << srvVars, ws_handler, opening_handshake, written,
                    close_calls, request, key, uri, exc, handler_calls,
                    warnings, outcome >>

\* handshake(), line 79: self.state = 'OPEN'.
handshake_open(c) ==
    /\ pc[c] = "set_state"
    /\ state' = [state EXCEPT ![c] = "OPEN"]
    /\ pc' = [pc EXCEPT ![c] = "set_result"]
    /\ trace' = [trace EXCEPT ![c] = Append(@, "state_open")]
    /\ UNCHANGED << srvVars, ws_handler, opening_handshake, written,
                    close_calls, request, key, uri, exc, handler_calls,
                    warnings, outcome >>

\* handshake(), line 80: self.opening_handshake.set_result(True).
handshake_signal(c) ==
    /\ pc[c] = "set_result"
    /\ opening_handshake' = [opening_handshake EXCEPT ![c] = @ + 1]
    /\ pc' = [pc EXCEPT ![c] = "return_uri"]
    /\ trace' = [trace EXCEPT ![c] = Append(@, "signal_released")]
    /\ UNCHANGED << srvVars, ws_handler, state, written, close_calls, request,
                    key, uri, exc, handler_calls, warnings, outcome >>

\* handshake() returning a fixed path instead of the request's URI.
handshake_return_root(c) ==
    /\ pc[c] = "return_uri"
    /\ uri' = [uri EXCEPT ![c] = "/"]
    /\ pc' = [pc EXCEPT ![c] = "call_ws_handler"]
    /\ trace' = [trace EXCEPT ![c] = Append(@, "handshake_done")]
    /\ UNCHANGED << srvVars, ws_handler, state, opening_handshake, written,
                    close_calls, request, key, exc, handler_calls, warnings,
                    outcome >>

\* handshake(), line 82, and handler(), line 46: uri = the returned URI.
handshake_return(c) ==
    /\ pc[c] = "return_uri"
    /\ uri' = [uri EXCEPT ![c] = request[c].uri]
    /\ pc' = [pc EXCEPT ![c] = "call_ws_handler"]
    /\ trace' = [trace EXCEPT ![c] = Append(@, "handshake_done")]
    /\ UNCHANGED << srvVars, ws_handler, state, opening_handshake, written,
                    close_calls, request, key, exc, handler_calls, warnings,
                    outcome >>

\* handler() scheduling the user handler without waiting for it.
call_ws_handler_unawaited(c) ==
    /\ pc[c] = "call_ws_handler"
    /\ handler_calls' = [handler_calls EXCEPT ![c] =
                            Append(@, [uri |-> uri[c], state |-> state[c]])]
    /\ pc' = [pc EXCEPT ![c] = "call_close"]
    /\ trace' = [trace EXCEPT ![c] = Append(@, "handler_invoked")]
    /\ UNCHANGED << srvVars, ws_handler, state, opening_handshake, written,
                    close_calls, request, key, uri, exc, warnings, outcome >>

\* handler(), line 47: the call ws_handler(self, uri); the handler coroutine
\* then runs on its own until it returns or raises.
call_ws_handler(c) ==
    /\ pc[c] = "call_ws_handler"
    /\ handler_calls' = [handler_calls EXCEPT ![c] =
                            Append(@, [uri |-> uri[c], state |-> state[c]])]
    /\ pc' = [pc EXCEPT ![c] = "ws_handler"]
    /\ trace' = [trace EXCEPT ![c] = Append(@, "handler_invoked")]
    /\ UNCHANGED << srvVars, ws_handler, state, opening_handshake, written,
                    close_calls, request, key, uri, exc, warnings, outcome >>

\* handler(), line 47: the user handler returns.
ws_handler_returns(c) ==
    /\ pc[c] = "ws_handler"
    /\ pc' = [pc EXCEPT ![c] = "call_close"]
    /\ trace' = [trace EXCEPT ![c] = Append(@, "handler_returned")]
    /\ UNCHANGED << srvVars, ws_handler, state, opening_handshake, written,
                    close_calls, request, key, uri, exc, handler_calls,
                    warnings, outcome >>

\* handler(), line 47: the user handler raises; control leaves the try block.
ws_handler_raises(c) ==
    /\ pc[c] = "ws_handler"
    /\ exc' = [exc EXCEPT ![c] = [type |-> "HandlerFault", cause |-> ""]]
    /\ pc' = [pc EXCEPT ![c] = "except"]
    /\ trace' = [trace EXCEPT ![c] = Append(@, "handler_raised")]
    /\ UNCHANGED << srvVars, ws_handler, state, opening_handshake, written,
                    close_calls, request, key, uri, handler_calls, warnings,
                    outcome >>

\* handler(), line 48: the call self.close() of the common protocol, which
\* starts the closing handshake: OPEN becomes CLOSING and a close frame is
\* sent.
close_start(c) ==
    /\ pc[c] = "call_close"
    /\ state' = [state EXCEPT ![c] = IF @ = "OPEN" THEN "CLOSING" ELSE @]
    /\ written' = [written EXCEPT ![c] = Append(@, <<"close-frame">>)]
    /\ pc' = [pc EXCEPT ![c] = "close"]
    /\ trace' = [trace EXCEPT ![c] = Append(@, "closing_started")]
    /\ UNCHANGED << srvVars, ws_handler, opening_handshake, close_calls,
                    request, key, uri, exc, handler_calls, warnings, outcome >>

\* handler(), line 48: self.close() reports completion; the try block ends
\* and the task returns.
close_completes(c) ==
    /\ pc[c] = "close"
    /\ pc' = [pc EXCEPT ![c] = "done"]
    /\ outcome' = [outcome EXCEPT ![c] = "returned"]
    /\ trace' = [trace EXCEPT ![c] = Append(@, "closing_done")]
    /\ UNCHANGED << srvVars, ws_handler, state, opening_handshake, written,
                    close_calls, request, key, uri, exc, handler_calls,
                    warnings >>

\* handler(), line 48: self.close() raises.
close_fails(c) ==
    /\ pc[c] = "close"
    /\ exc' = [exc EXCEPT ![c] = [type |-> "ClosingFault", cause |-> ""]]
    /\ pc' = [pc EXCEPT ![c] = "except"]
    /\ trace' = [trace EXCEPT ![c] = Append(@, "closing_failed")]
    /\ UNCHANGED << srvVars, ws_handler, state, opening_handshake, written,
                    close_calls, request, key, uri, handler_calls, warnings,
                    outcome >>

\* The except block without the call of transport.close().
except_block_no_close(c) ==
    /\ pc[c] = "except"
    /\ warnings' = [warnings EXCEPT ![c] = @ + 1]
    /\ exc' = [exc EXCEPT ![c] = NoExc]
    /\ pc' = [pc EXCEPT ![c] = "done"]
    /\ outcome' = [outcome EXCEPT ![c] = "returned"]
    /\ trace' = [trace EXCEPT ![c] = Append(@, "warning")]
    /\ UNCHANGED << srvVars, ws_handler, state, opening_handshake, written,
                    close_calls, request, key, uri, handler_calls >>

\* The except block also stopping the server.
except_block_stops_listener(c) ==
    /\ pc[c] = "except"
    /\ warnings' = [warnings EXCEPT ![c] = @ + 1]
    /\ close_calls' = [close_calls EXCEPT ![c] = @ + 1]
    /\ exc' = [exc EXCEPT ![c] = NoExc]
    /\ pc' = [pc EXCEPT ![c] = "done"]
    /\ outcome' = [outcome EXCEPT ![c] = "returned"]
    /\ trace' = [trace EXCEPT ![c] = @ \o <<"warning", "transport_close">>]
    /\ serve_status' = "stopped"
    /\ UNCHANGED << debug, serve_args, create_server_calls, ws_handler, state,
                    opening_handshake, written, request, key, uri,
                    handler_calls >>

\* The except block ending with `raise` instead of `return`.
except_block_reraises(c) ==
    /\ pc[c] = "except"
    /\ warnings' = [warnings EXCEPT ![c] = @ + 1]
    /\ close_calls' = [close_calls EXCEPT ![c] = @ + 1]
    /\ pc' = [pc EXCEPT ![c] = "done"]
    /\ outcome' = [outcome EXCEPT ![c] = "raised"]
    /\ trace' = [trace EXCEPT ![c] = @ \o <<"warning", "transport_close">>]
    /\ UNCHANGED << srvVars, ws_handler, state, opening_handshake, written,
                    request, key, uri, exc, handler_calls >>

\* The except block also resolving the handshake-completion signal.
except_block_releases(c) ==
    /\ pc[c] = "except"
    /\ warnings' = [warnings EXCEPT ![c] = @ + 1]
    /\ close_calls' = [close_calls EXCEPT ![c] = @ + 1]
    /\ opening_handshake' = [opening_handshake EXCEPT ![c] = @ + 1]
    /\ exc' = [exc EXCEPT ![c] = NoExc]
    /\ pc' = [pc EXCEPT ![c] = "done"]
    /\ outcome' = [outcome EXCEPT ![c] = "returned"]
    /\ trace' = [trace EXCEPT ![c] = @ \o <<"warning", "transport_close">>]
    /\ UNCHANGED << srvVars, ws_handler, state, written, request, key, uri,
                    handler_calls >>

\* The except block running the task once more after a first failure before
\* the handshake is done.
except_block_retry(c) ==
    /\ pc[c] = "except"
    /\ warnings' = [warnings EXCEPT ![c] = @ + 1]
    /\ exc' = [exc EXCEPT ![c] = NoExc]
    /\ IF warnings[c] = 0 /\ state[c] = "CONNECTING"
       THEN /\ pc' = [pc EXCEPT ![c] = "task"]
            /\ trace' = [trace EXCEPT ![c] = Append(@, "warning")]
            /\ UNCHANGED << close_calls, outcome >>
       ELSE /\ pc' = [pc EXCEPT ![c] = "done"]
            /\ close_calls' = [close_calls EXCEPT ![c] = @ + 1]
            /\ outcome' = [outcome EXCEPT ![c] = "returned"]
            /\ trace' = [trace EXCEPT ![c] = @ \o <<"warning", "transport_close">>]
    /\ UNCHANGED << srvVars, ws_handler, state, opening_handshake, written,
                    request, key, uri, handler_calls >>

\* handler(), lines 49-52: log the warning, close the transport, return.
except_block(c) ==
    /\ pc[c] = "except"
    /\ warnings' = [warnings EXCEPT ![c] = @ + 1]
    /\ close_calls' = [close_calls EXCEPT ![c] = @ + 1]
    /\ exc' = [exc EXCEPT ![c] = NoExc]
    /\ pc' = [pc EXCEPT ![c] = "done"]
    /\ outcome' = [outcome EXCEPT ![c] = "returned"]
    /\ trace' = [trace EXCEPT ![c] = @ \o <<"warning", "transport_close">>]
    /\ UNCHANGED << srvVars, ws_handler, state, opening_handshake, written,
                    request, key, uri, handler_calls >>

\* Number of times e has happened on connection c.
Count(c, e) == Cardinality({i \in DOMAIN trace[c] : trace[c][i] = e})

\* The suspension points of the connection task: the read of the request,
\* the user handler, the closing sequence.
SuspensionPoints == {"read_request", "ws_handler", "close"}

\* The exception handler() sees when CancelledError is thrown in at c's
\* suspension point and o is what the user handler does with it.  In
\* handshake() the `except Exception` of line 64 wraps it like any other
\* failure of read_request; at line 47 the throw is delegated to the user
\* handler, which may raise an exception of its own instead.
CancelRaises(c, o) ==
    IF pc[c] = "read_request"
    THEN [type |-> "InvalidHandshake", cause |-> "CancelledError"]
    ELSE IF pc[c] = "ws_handler" /\ o = "raises"
    THEN [type |-> "HandlerFault", cause |-> ""]
    ELSE [type |-> "CancelledError", cause |-> ""]

\* The events that follow a cancellation: the end of the phase it
\* interrupts, or nothing when the user handler goes on waiting.
CancelEnds(c, o) ==
    CASE pc[c] = "read_request" -> <<"handshake_failed">>
      [] pc[c] = "ws_handler" /\ o = "returns" -> <<"handler_returned">>
      [] pc[c] = "ws_handler" /\ o = "waits" -> <<>>
      [] pc[c] = "ws_handler" -> <<"handler_raised">>
      [] OTHER -> <<"closing_failed">>

\* The task is cancelled while suspended: tulip throws CancelledError, an
\* Exception, into the coroutine.  In the read of the request and in the
\* closing sequence it reaches the try block of handler(), lines 43-49.  At
\* line 47 it is thrown into the user handler: what the handler lets out
\* reaches line 49; a handler that catches it and returns lets handler() go
\* on to line 48; one that catches it and goes on waiting leaves the task
\* where it is.
cancel(c, o) ==
    /\ pc[c] \in SuspensionPoints
    /\ pc[c] # "ws_handler" => o = "propagates"
    /\ o = "waits" => Count(c, "cancelled") < MaxCancels
    /\ trace' = [trace EXCEPT ![c] = @ \o <<"cancelled">> \o CancelEnds(c, o)]
    /\ IF o = "returns"
       THEN /\ pc' = [pc EXCEPT ![c] = "call_close"]
            /\ UNCHANGED exc
       ELSE IF o = "waits"
       THEN UNCHANGED << pc, exc >>
       ELSE /\ pc' = [pc EXCEPT ![c] = "except"]
            /\ exc' = [exc EXCEPT ![c] = CancelRaises(c, o)]
    /\ UNCHANGED << srvVars, ws_handler, state, opening_handshake, written,
                    close_calls, request, key, uri, handler_calls, warnings,
                    outcome >>

\* The task is cancelled after connection_made has spawned it (line 39) and
\* before its first step: CancelledError is raised at the start of the
\* generator, outside the try block of lines 43-49, so the task ends raising
\* it, with nothing logged and the transport not closed.
cancel_before_start(c) ==
    /\ pc[c] = "task"
    /\ pc' = [pc EXCEPT ![c] = "done"]
    /\ outcome' = [outcome EXCEPT ![c] = "raised"]
    /\ trace' = [trace EXCEPT ![c] = Append(@, "cancelled")]
    /\ UNCHANGED << srvVars, ws_handler, state, opening_handshake, written,
                    close_calls, request, key, uri, exc, handler_calls,
                    warnings >>

\* ------------------------------------------------------------ specification

\* The steps of connection c's task that the event loop runs without
\* waiting for the peer or for the user handler.
TaskStep(c) ==
    \/ handler_start(c)
    \/ handshake_check(c)
    \/ handshake_write(c)
    \/ handshake_open(c)
    \/ handshake_signal(c)
    \/ handshake_return(c)
    \/ call_ws_handler(c)
    \/ close_start(c)
    \/ except_block(c)

\* The steps of serve().
ServeNext ==
    \/ \E h \in HandlerArgs, p \in FeatureArgs, e \in FeatureArgs : Serve(h, p, e)
    \/ create_server_returns
    \/ create_server_raises

\* The steps of the connections of a listening server.
ConnNext ==
    \/ \E c \in Conns : Construct(c)
    \/ \E c \in Conns : connection_made(c)
    \/ \E c \in Conns : TaskStep(c)
    \/ \E c \in Conns, r \in Requests : read_request(c, r)
    \/ \E c \in Conns : ws_handler_returns(c)
    \/ \E c \in Conns : ws_handler_raises(c)
    \/ \E c \in Conns : close_completes(c)
    \/ \E c \in Conns : close_fails(c)
    \/ \E c \in Conns, o \in HandlerOnCancel : cancel(c, o)
    \/ \E c \in Conns : cancel_before_start(c)

Next == ServeNext \/ ConnNext

Spec == Init /\ [][Next]_vars

\* The states in which serve() has returned its server: the server listens
\* and no transport has been accepted yet.  With __debug__ true that takes
\* empty protocols and extensions.
Listening ==
    /\ debug \in BOOLEAN
    /\ serve_status = "listening"
    /\ serve_args \in [ws_handler : HandlerArgs, protocols : FeatureArgs,
                        extensions : FeatureArgs]
    /\ debug => (serve_args.protocols = <<>> /\ serve_args.extensions = <<>>)
    /\ create_server_calls = 1
    /\ pc = [c \in Conns |-> "absent"]
    /\ ws_handler = [c \in Conns |-> None]
    /\ state = [c \in Conns |-> "CONNECTING"]
    /\ opening_handshake = [c \in Conns |-> 0]
    /\ written = [c \in Conns |-> <<>>]
    /\ close_calls = [c \in Conns |-> 0]
    /\ request = [c \in Conns |-> ParseFailure]
    /\ key = [c \in Conns |-> ""]
    /\ uri = [c \in Conns |-> ""]
    /\ exc = [c \in Conns |-> NoExc]
    /\ handler_calls = [c \in Conns |-> <<>>]
    /\ warnings = [c \in Conns |-> 0]
    /\ outcome = [c \in Conns |-> ""]
    /\ trace = [c \in Conns |-> <<>>]

\* The connections of a server that listens, under the event
\* loop's scheduling: it runs every ready task, so a task that can take a
\* step of its own does take it.
FairSpec == Listening /\ [][ConnNext]_vars /\ \A c \in Conns : WF_vars(TaskStep(c))

\* ------------------------------------------------------------------ history

\* Event e has happened on connection c.
Has(c, e) == \E i \in DOMAIN trace[c] : trace[c][i] = e

\* The position of the first e in c's trace, 0 when there is none.
Idx(c, e) ==
    IF Has(c, e)
    THEN CHOOSE i \in DOMAIN trace[c] :
            /\ trace[c][i] = e
            /\ \A j \in DOMAIN trace[c] : trace[c][j] = e => i <= j
    ELSE 0

\* e happened on c, and before it a did.
After(c, e, a) == Has(c, e) => (Has(c, a) /\ Idx(c, a) < Idx(c, e))

\* Number of 101 responses written to c's transport.
Responses(c) ==
    Cardinality({i \in DOMAIN written[c] :
                    written[c][i][1] = "HTTP/1.1 101 Switching Protocols"})

\* The request of c was read and the Request Validator rejects it.
ValidatorFails(c) == request[c].ok /\ ~check_request(request[c].headers).ok

\* The phases of c that have begun and not ended.
ActivePhases(c) ==
    {ph \in {"handshake", "handler", "closing"} :
        \/ /\ ph = "handshake"
           /\ Has(c, "handshake_start")
           /\ ~Has(c, "handshake_done") /\ ~Has(c, "handshake_failed")
        \/ /\ ph = "handler"
           /\ Has(c, "handler_invoked")
           /\ ~Has(c, "handler_returned") /\ ~Has(c, "handler_raised")
        \/ /\ ph = "closing"
           /\ Has(c, "closing_started")
           /\ ~Has(c, "closing_done") /\ ~Has(c, "closing_failed")}

\* Connection c's task has failed: an exception reached the except block.
Failed(c) == pc[c] = "except" \/ warnings[c] > 0

\* The positions at which c's task runs on without waiting.
Ready(c) ==
    pc[c] \in {"task", "check_request", "write", "set_state", "set_result",
               "return_uri", "call_ws_handler", "call_close", "except"}

\* Connection c's task was cancelled while suspended at one of its
\* suspension points, which all come after the start of the handshake.
CancelledAtSuspension(c) == Has(c, "cancelled") /\ Has(c, "handshake_start")

\* ------------------------------------------------------------------- claims

\* C1: on every path of the connection task, transport.close() has been
\* called exactly once when the task has ended.
C1_CloseExactlyOnce ==
    \A c \in Conns : pc[c] = "done" => close_calls[c] = 1

\* C2: when the user handler raises after a successful handshake, the closing
\* sequence is started before the transport is closed, the failure is logged
\* and the task does not raise.
C2_ClosingAfterHandlerFault ==
    \A c \in Conns :
        (Has(c, "handler_raised") /\ pc[c] = "done") =>
            /\ After(c, "transport_close", "closing_started")
            /\ warnings[c] >= 1
            /\ outcome[c] = "returned"

\* C3: the user handler is only ever invoked with the state OPEN, and is
\* never running while the state is CONNECTING.
C3_HandlerOnlyWhenOpen ==
    \A c \in Conns :
        /\ \A i \in DOMAIN handler_calls[c] : handler_calls[c][i].state = "OPEN"
        /\ pc[c] = "ws_handler" => state[c] # "CONNECTING"

C3_Witness ==
    \E c \in Conns : Len(handler_calls[c]) = 1 /\ pc[c] = "ws_handler"

\* C4: the 101 response is written at most once per connection, and exactly
\* once when the handshake has succeeded, whatever the user handler and the
\* closing sequence do afterwards.
C4_ResponseOnce ==
    \A c \in Conns :
        /\ Responses(c) <= 1
        /\ Has(c, "handshake_done") => Responses(c) = 1

C4_Witness ==
    \E c \in Conns :
        /\ pc[c] = "done"
        /\ Has(c, "closing_done")
        /\ written[c][Len(written[c])] = <<"close-frame">>
        /\ Responses(c) = 1

\* C5: when the Request Validator fails for a request, nothing has been
\* written to the transport at any point of the connection's life.
C5_NoBytesOnInvalidRequest ==
    \A c \in Conns : ValidatorFails(c) => written[c] = <<>>

C5_Witness ==
    \E c, d \in Conns :
        /\ pc[c] = "done" /\ pc[d] = "done"
        /\ request[c] = Parsed("/chat", HeadersNoKey)
        /\ request[d] = Parsed("/feed", HeadersNoUpgrade)
        /\ ValidatorFails(c) /\ ValidatorFails(d)

\* C6: once the opening handshake has failed, the user handler is never
\* invoked, and the transport is eventually closed.
C6_HandshakeFailure ==
    \A c \in Conns :
        /\ [](Has(c, "handshake_failed") => handler_calls[c] = <<>>)
        /\ (Has(c, "handshake_failed") ~> close_calls[c] >= 1)

C6_Witness ==
    \E c \in Conns :
        /\ Has(c, "handshake_failed")
        /\ handler_calls[c] = <<>>
        /\ close_calls[c] = 1

\* C7: the phases of a connection are ordered and do not overlap: the handler
\* is invoked after the handshake is done, the closing sequence starts after
\* the handler has returned, and the transport is closed with no phase
\* running.
C7_PhasesOrdered ==
    \A c \in Conns :
        /\ Cardinality(ActivePhases(c)) <= 1
        /\ After(c, "handler_invoked", "handshake_done")
        /\ After(c, "closing_started", "handler_returned")
        /\ After(c, "handler_returned", "handler_invoked")
        /\ Has(c, "closing_started") =>
              (/\ ~Has(c, "handler_raised")
               /\ Idx(c, "handshake_done") < Idx(c, "handler_invoked")
               /\ Idx(c, "handler_invoked") < Idx(c, "handler_returned"))
        /\ Has(c, "transport_close") => ActivePhases(c) = {}
        /\ (Has(c, "transport_close") /\ Has(c, "closing_started")) =>
              After(c, "transport_close", "closing_failed")

C7_Witness ==
    \E c \in Conns :
        trace[c] = << "task_spawned", "handshake_start", "request_valid",
                      "response_written", "state_open", "signal_released",
                      "handshake_done", "handler_invoked", "handler_returned",
                      "closing_started", "closing_failed", "warning",
                      "transport_close" >>

\* C8: the handshake-completion signal is released only after the response
\* has been written and the state set to OPEN; it is never released while
\* the state is CONNECTING or the response unwritten.
C8_SignalAfterOpen ==
    \A c \in Conns :
        opening_handshake[c] > 0 =>
            /\ state[c] # "CONNECTING"
            /\ Responses(c) = 1
            /\ After(c, "signal_released", "state_open")
            /\ After(c, "state_open", "response_written")

C8_Witness ==
    \E c \in Conns :
        opening_handshake[c] = 1 /\ state[c] = "OPEN" /\ pc[c] = "return_uri"

\* C9: a server given no handler fails at construction: it never listens,
\* no transport is accepted, and no connection task meets the missing
\* handler.
C9_FailsAtConstruction ==
    (serve_status # "not_called" /\ serve_args.ws_handler = None) =>
        /\ serve_status # "listening"
        /\ \A c \in Conns : pc[c] = "absent" /\ ~Has(c, "no_handler")

C11_ListenerSurvives ==
    \A c \in Conns :
        Failed(c) =>
            /\ serve_status = "listening"
            /\ \A d \in Conns :
                  (pc[d] = "absent" /\ \A e \in Conns : e < d => pc[e] # "absent")
                      => ENABLED Construct(d)
            /\ \A d \in Conns \ {c} : Ready(d) => ENABLED TaskStep(d)

C11_Witness ==
    /\ pc[1] = "done"
    /\ warnings[1] = 1
    /\ pc[2] = "absent"
    /\ ENABLED Construct(2)

\* C12: a step of one connection leaves the lifecycle state and the
\* handshake-completion signal of every other connection unchanged.
C12_ConnectionsIndependent ==
    [][\A c, d \in Conns :
          (c # d /\ pc'[c] # pc[c]) =>
              /\ state'[d] = state[d]
              /\ opening_handshake'[d] = opening_handshake[d]]_vars

C12_Witness ==
    /\ pc[2] = "done"
    /\ state[2] = "OPEN"
    /\ opening_handshake[2] = 1
    /\ pc[1] = "read_request"
    /\ state[1] = "CONNECTING"
    /\ opening_handshake[1] = 0

\* C13: when the connection task is cancelled at a suspension point (the
\* read of the request, the user handler, the closing sequence), the
\* transport is closed: the task never ends with the transport open.
C13_CancelClosesTransport ==
    \A c \in Conns :
        (CancelledAtSuspension(c) /\ pc[c] = "done") => close_calls[c] = 1

\* C14: when the task has ended after a handshake failure or a fault and the
\* transport has been closed, the state of the connection is CLOSED.
C14_ClosedAfterFailure ==
    \A c \in Conns :
        (pc[c] = "done" /\ warnings[c] > 0 /\ close_calls[c] > 0) =>
            state[c] = "CLOSED"

\* C15: the connection task does not propagate a failure: after a handshake
\* failure, a handler fault or a closing fault the exception is caught, and
\* the task has logged one warning, closed the transport and returned.
C15_FailureContained ==
    \A c \in Conns :
        /\ ( \/ Has(c, "handshake_failed")
             \/ Has(c, "handler_raised")
             \/ Has(c, "closing_failed") )
           => (outcome[c] # "raised" /\ pc[c] \in {"except", "done"})
        /\ ( /\ pc[c] = "done"
             /\ \/ Has(c, "handshake_failed")
                \/ Has(c, "handler_raised")
                \/ Has(c, "closing_failed") )
           => /\ outcome[c] = "returned"
              /\ warnings[c] = 1
              /\ close_calls[c] = 1
              /\ Idx(c, "warning") < Idx(c, "transport_close")

C15_Witness ==
    \E c \in Conns :
        /\ pc[c] = "done"
        /\ Has(c, "closing_failed")
        /\ ~Has(c, "cancelled")
        /\ outcome[c] = "returned"
        /\ warnings[c] = 1

\* C16: when read_request fails, handshake() raises InvalidHandshake with the
\* parse failure as its cause, in the same step: the Request Validator is not
\* run on the request and nothing is written.
C16_MalformedRequest ==
    \A c \in Conns :
        Has(c, "parse_failed") =>
            /\ pc[c] \in {"except", "done"}
            /\ pc[c] = "except" =>
                  exc[c] = [type |-> "InvalidHandshake", cause |-> "ParseError"]
            /\ Idx(c, "handshake_failed") = Idx(c, "parse_failed") + 1
            /\ ~Has(c, "request_valid")
            /\ ~request[c].ok
            /\ key[c] = ""
            /\ written[c] = <<>>

C16_Witness ==
    \E c \in Conns :
        /\ Has(c, "parse_failed")
        /\ pc[c] = "except"
        /\ exc[c].cause = "ParseError"

\* C17: the user handler is called with the URI that read_request produced
\* for the connection's request.
C17_UriPassedThrough ==
    \A c \in Conns :
        /\ \A i \in DOMAIN handler_calls[c] :
              request[c].ok /\ handler_calls[c][i].uri = request[c].uri
        /\ Has(c, "handshake_done") => uri[c] = request[c].uri

C17_Witness ==
    /\ Len(handler_calls[1]) = 1
    /\ Len(handler_calls[2]) = 1
    /\ handler_calls[1][1].uri = "/feed"
    /\ handler_calls[2][1].uri = "/chat"

\* C18: the response written is the status line, the Server header, then
\* Upgrade, Connection and Sec-WebSocket-Accept, each line ended by CRLF, and
\* one empty line; connections with the same key write the same response.
C18_ResponseFormat ==
    /\ \A c \in Conns : \A i \in DOMAIN written[c] :
          written[c][i][1] = "HTTP/1.1 101 Switching Protocols" =>
              written[c][i] =
                  << "HTTP/1.1 101 Switching Protocols", "\r\n",
                     "Server", ": ", USER_AGENT, "\r\n",
                     "Upgrade", ": ", "websocket", "\r\n",
                     "Connection", ": ", "Upgrade", "\r\n",
                     "Sec-WebSocket-Accept", ": ", accept(key[c]), "\r\n",
                     "\r\n" >>
    /\ \A c, d \in Conns :
          (Responses(c) = 1 /\ Responses(d) = 1 /\ key[c] = key[d]) =>
              written[c][1] = written[d][1]

C18_Witness ==
    /\ Responses(1) = 1
    /\ Responses(2) = 1
    /\ key[1] = key[2]
    /\ written[1][1][Len(written[1][1])] = "\r\n"

\* C19: once the opening handshake has failed, the handshake-completion
\* signal is never released and the state never becomes OPEN.
C19_NoSignalAfterFailure ==
    \A c \in Conns :
        Has(c, "handshake_failed") =>
            /\ opening_handshake[c] = 0
            /\ state[c] = "CONNECTING"

C19_Witness ==
    \E c \in Conns :
        /\ Has(c, "handshake_failed")
        /\ ValidatorFails(c)
        /\ pc[c] = "done"
        /\ close_calls[c] = 1
        /\ opening_handshake[c] = 0

\* C20: an accepted transport spawns one task, and in it the handshake is
\* started at most once, the user handler called at most once and the
\* signal released at most once.
C20_NothingRetried ==
    \A c \in Conns :
        /\ Count(c, "task_spawned") = (IF pc[c] \in {"absent", "constructed"} THEN 0 ELSE 1)
        /\ Count(c, "handshake_start") <= 1
        /\ Count(c, "handshake_failed") <= 1
        /\ Len(handler_calls[c]) <= 1
        /\ Count(c, "handler_invoked") = Len(handler_calls[c])
        /\ opening_handshake[c] <= 1

C20_Witness ==
    \E c \in Conns :
        /\ pc[c] = "done"
        /\ Has(c, "closing_done")
        /\ Count(c, "handshake_start") = 1
        /\ Len(handler_calls[c]) = 1
        /\ opening_handshake[c] = 1

====
